---- MODULE Spec2Model ----
(***************************************************************************)
(* Model of crunchy_support_dump.py: the start-up sequence of __main__,    *)
(* run() with its ten collectors, and archive_files().  The program is     *)
(* sequential; nondeterminism comes from the exit codes and outputs of the *)
(* subprocesses it starts and from the file system.                        *)
(*                                                                         *)
(* Strings that the program parses are sequences of tokens ("\n" and ","   *)
(* are tokens of their own); a path is a sequence of components, each      *)
(* component a token sequence.                                             *)
(***************************************************************************)
EXTENDS Integers, Sequences, FiniteSets, TLC

\* ---------------------------------------------------------------- bounds
\* at most this many subprocesses of the collection phase exit non-zero or
\* print nothing during one run
MaxFaults == 1
\* at most this many pods carry the vendor=crunchydata label
MaxPods == 1

\* ------------------------------------------------------ program constants
MAX_ARCHIVE_EMAIL_SIZE == 25 * 1024 * 1024

API_RESOURCES ==
    << "pods", "ReplicaSet", "Deployment", "Services", "Routes", "Ingress",
       "NetworkPolicies", "pvc", "configmap", "pgreplicas", "pgclusters",
       "pgpolicies", "pgtasks" >>

CONTAINER_COMMANDS ==
    (<<"collect">>  :> << >>) @@
    (<<"database">> :> << "patronictl list", "patronictl history" >>) @@
    (<<"pgbadger">> :> << >>) @@
    (<<"all">>      :> << "ps aux --width 500", "df -h", "env" >>)

\* time.strftime("%Y%m%d-%H%M%S") is one fixed instant per run
DirName == << "crunchy_k8s_support_dump_", "TS" >>

\* posixpath.abspath(__file__): the script, a regular file
ScriptPath == << << "crunchy_support_dump.py" >> >>

\* ------------------------------------------------------------ input sets
Namespaces == { "pgdb" }
\* values of -o: a directory, or the empty string
OutputDirs == { << << "dumps" >> >>, << >> }
\* the container lists a pod of the cluster can have
PodShapes ==
    { << <<"database">>, <<"collect">> >>,
      << <<"database">>, <<"exporter">> >>,
      << <<"all">> >> }
\* what os.stat can answer for the archive: a size, or an exception
ArchiveSizes ==
    { 0, MAX_ARCHIVE_EMAIL_SIZE - 1, MAX_ARCHIVE_EMAIL_SIZE,
      MAX_ARCHIVE_EMAIL_SIZE + 1 }
StatResults ==
    { [ok |-> TRUE, st_size |-> s] : s \in ArchiveSizes }
        \cup { [ok |-> FALSE, st_size |-> 0] }

\* ------------------------------------------------------------- variables
VARIABLES
    pc,             \* position of the single thread
    results,        \* parsed command line (argparse namespace)
    OPT,            \* the global Options object
    exitStatus,     \* exit status of the process, -1 while it runs
    exc,            \* the uncaught exception that ended the run, if any
    dirs,           \* directories that exist
    files,          \* regular files that exist
    log,            \* records written to the logger
    faults,         \* subprocess failures so far (bounded by MaxFaults)
    calls,          \* subprocesses started by the collectors so far
    failed,         \* history: items whose subprocess exited non-zero
    resources_out,  \* collect_api_resources: the OrderedDict
    ri,             \* collect_api_resources: index into API_RESOURCES
    pods,           \* local of the per-pod collectors
    podIdx,
    containers,
    contIdx,
    execLog,        \* commands run in the container handled last
    archive,        \* path and size of the archive once written
    cluster,        \* environment: the pods of the namespace
    fsWritable,     \* environment: directories can be created
    binaries        \* environment: CLIs that "which" finds

vars == << pc, results, OPT, exitStatus, exc, dirs, files, log, faults, calls,
           failed,
           resources_out, ri, pods, podIdx, containers, contIdx, execLog,
           archive, cluster, fsWritable, binaries >>

env == << cluster, fsWritable, binaries, results >>
locals == << resources_out, ri, pods, podIdx, containers, contIdx, execLog >>

\* ------------------------------------------------------ values and text
None == [isNone |-> TRUE, v |-> << >>]
Some(x) == [isNone |-> FALSE, v |-> x]

NoExc == [type |-> "none", at |-> "none"]
Msg(m) == [msg |-> m, n |-> 0]
MsgN(m, k) == [msg |-> m, n |-> k]

Data == << "data" >>
ErrText == << "error", "\n" >>
Whitespace == { "\n", " ", "\t" }

DropLast(s) == SubSeq(s, 1, Len(s) - 1)

\* str.split(sep)
RECURSIVE Split(_, _)
Split(s, sep) ==
    IF s = << >> THEN << << >> >>
    ELSE LET rest == Split(Tail(s), sep)
         IN  IF Head(s) = sep
             THEN << << >> >> \o rest
             ELSE << << Head(s) >> \o Head(rest) >> \o Tail(rest)

\* str.rstrip()
RECURSIVE rstrip(_)
rstrip(s) ==
    IF s # << >> /\ s[Len(s)] \in Whitespace THEN rstrip(DropLast(s)) ELSE s

\* posixpath.join(a, b) for a relative b
join(a, b) == a \o << b >>

\* path + suffix, as in OPT.output_dir + ".tar.gz"
AddSuffix(p, tok) == DropLast(p) \o << p[Len(p)] \o << tok >> >>

Prefixes(p) == { SubSeq(p, 1, k) : k \in 1..Len(p) }

\* ------------------------------------------------------- the environment
PodName(i) == << "pod", ToString(i) >>

\* what "<cli> get pod ... -o=custom-columns=NAME:.metadata.name
\* --no-headers" prints for the first k pods of the cluster
RECURSIVE PodsOutput(_)
PodsOutput(k) ==
    IF k = 0 THEN << >> ELSE PodsOutput(k - 1) \o PodName(k) \o << "\n" >>

RECURSIVE JoinComma(_)
JoinComma(names) ==
    IF Len(names) = 1 THEN names[1]
    ELSE names[1] \o << "," >> \o JoinComma(Tail(names))

\* what "... -o=custom-columns=CONTAINERS:.spec.containers[*].name" prints
ContainersOutput(shape) == JoinComma(shape) \o << "\n" >>

\* what "ls -d /pgdata/*/pg_log/* | head -2" prints in a database container
LsOutput == << "pg_log_1", "\n", "pg_log_2", "\n" >>

Clusters ==
    UNION { { [pods |-> p, pg |-> k] : p \in [1..n -> PodShapes], k \in 0..n }
            : n \in 0..MaxPods }

KnownPod(pod_name) ==
    \E i \in 1..Len(cluster.pods) : PodName(i) = pod_name
ShapeOf(pod_name) ==
    cluster.pods[CHOOSE i \in 1..Len(cluster.pods) : PodName(i) = pod_name]

\* exit status and output of a child process that prints okOut when it
\* works; f is the number of faults already spent
Children(okOut, f) ==
    { [status |-> 0, output |-> okOut] }
        \cup (IF f < MaxFaults THEN { [status |-> 1, output |-> ErrText] }
              ELSE { })
\* the same for "<cli> get <kind> -o yaml", which may also print nothing
GetChildren(f) ==
    Children(Data, f)
        \cup (IF f < MaxFaults THEN { [status |-> 0, output |-> << >>] }
              ELSE { })
Cost(child) == IF child.status # 0 \/ child.output = << >> THEN 1 ELSE 0

\* --------------------------------------------------------- file system
CanMakedirs(p) ==
    /\ fsWritable
    /\ p \notin dirs
    /\ \A q \in Prefixes(p) : q \notin files
CanOpen(path) == DropLast(path) \in dirs

\* ------------------------------------------------------ pure functions
\* run_shell_command: (exit code, output) of subprocess.check_output
run_shell_command(child) ==
    IF child.status # 0
    THEN [rc |-> child.status, out |-> child.output]
    ELSE [rc |-> 0, out |-> child.output]

run_kube_get(child) ==
    LET r == run_shell_command(child)
    IN  IF r.rc = 0 THEN Some(r.out) ELSE None

\* get_pods without the [:-1] that drops the piece after the last newline
get_pods_keeps_last_piece(child) ==
    LET r == run_shell_command(child)
    IN  IF r.rc = 0 THEN Some(Split(r.out, "\n")) ELSE None

get_pods(child) ==
    LET r == run_shell_command(child)
    IN  IF r.rc = 0 THEN Some(DropLast(Split(r.out, "\n"))) ELSE None

get_pg_pods(child) ==
    LET r == run_shell_command(child)
    IN  IF r.rc = 0 THEN Some(DropLast(Split(r.out, "\n"))) ELSE None

get_containers(child) ==
    LET r == run_shell_command(child)
    IN  IF r.rc = 0 THEN Some(Split(r.out, ",")) ELSE None

\* Python truth value of an Optional[bytes] / Optional[list]
Truthy(x) == ~x.isNone /\ x.v # << >>

\* the test of line 322 written with >=
TooBigToEmail_at_threshold(archive_file_size) ==
    archive_file_size >= MAX_ARCHIVE_EMAIL_SIZE

\* the test of line 322
TooBigToEmail(archive_file_size) == archive_file_size > MAX_ARCHIVE_EMAIL_SIZE

\* the command list of line 255, for a container name that is a key
CommandsFor(container) ==
    CONTAINER_COMMANDS[<<"all">>] \o CONTAINER_COMMANDS[container]

NoExec == [ran |-> FALSE, container |-> << >>, cmds |-> << >>]

\* ----------------------------------------------------------------- Init
Init ==
    /\ pc = "main"
    /\ results \in [namespace : Namespaces, output_dir : OutputDirs]
    /\ OPT = [output_dir |-> << >>, namespace |-> "", kube_cli |-> "kubectl",
              dir_name |-> DirName]
    /\ exitStatus = -1
    /\ exc = NoExc
    /\ dirs = { }
    /\ files = { ScriptPath }
    /\ log = { }
    /\ faults = 0
    /\ calls = 0
    /\ failed = { }
    /\ resources_out = << >>
    /\ ri = 1
    /\ pods = None
    /\ podIdx = 1
    /\ containers = None
    /\ contIdx = 1
    /\ execLog = NoExec
    /\ archive = [written |-> FALSE, stat_ok |-> FALSE, st_size |-> 0]
    /\ cluster \in Clusters
    /\ fsWritable \in BOOLEAN
    /\ binaries \in SUBSET { "oc", "kubectl" }

\* an exception nobody catches: traceback, exit status 1
Raise(type) ==
    /\ pc' = "crashed"
    /\ exc' = [type |-> type, at |-> pc]
    /\ exitStatus' = 1

\* sys.exit() without an argument: exit status 0
SysExit ==
    /\ pc' = "exited"
    /\ exitStatus' = 0
    /\ exc' = exc

\* ------------------------------------------------------------- __main__
main_set_namespace ==
    /\ pc = "main"
    /\ OPT' = [OPT EXCEPT !.namespace = results.namespace]
    /\ pc' = "get_kube_cli"
    /\ UNCHANGED << calls, exitStatus, exc, dirs, files, log, faults, failed, locals,
                    archive, env >>

\* OPT.kube_cli = get_kube_cli()
get_kube_cli ==
    /\ pc = "get_kube_cli"
    /\ LET which_oc == run_shell_command(
               [status |-> IF "oc" \in binaries THEN 0 ELSE 1, output |-> Data])
           which_kubectl == run_shell_command(
               [status |-> IF "kubectl" \in binaries THEN 0 ELSE 1,
                output |-> Data])
       IN  IF which_oc.rc = 0
           THEN /\ OPT' = [OPT EXCEPT !.kube_cli = "oc"]
                /\ pc' = "main_set_output_dir"
                /\ UNCHANGED << exitStatus, exc, log >>
           ELSE IF which_kubectl.rc = 0
           THEN /\ OPT' = [OPT EXCEPT !.kube_cli = "kubectl"]
                /\ pc' = "main_set_output_dir"
                /\ UNCHANGED << exitStatus, exc, log >>
           ELSE /\ log' = log \cup { Msg("kubernetes CLI not found") }
                /\ SysExit
                /\ UNCHANGED OPT
    /\ UNCHANGED << calls, dirs, files, faults, failed, locals, archive, env >>

main_set_output_dir ==
    /\ pc = "main_set_output_dir"
    /\ OPT' = [OPT EXCEPT !.output_dir = results.output_dir]
    /\ pc' = "check_kube_access"
    /\ UNCHANGED << calls, exitStatus, exc, dirs, files, log, faults, failed, locals,
                    archive, env >>

\* the start-up check without its sys.exit()
check_kube_access_without_exit ==
    /\ pc = "check_kube_access"
    /\ \E status \in { 0, 1 } :
          LET r == run_shell_command([status |-> status, output |-> Data])
          IN  /\ log' = IF r.rc # 0
                        THEN log \cup
                             { Msg("Failed in shell command"),
                               Msg("Not connected to kubernetes cluster") }
                        ELSE log
              /\ pc' = "run"
              /\ UNCHANGED << exitStatus, exc >>
    /\ UNCHANGED << calls, OPT, dirs, files, faults, failed, locals, archive,
                    env >>

\* if check_kube_access() != 0: logger.error(...); sys.exit()
check_kube_access ==
    /\ pc = "check_kube_access"
    /\ \E status \in { 0, 1 } :
          LET r == run_shell_command([status |-> status, output |-> Data])
          IN  IF r.rc # 0
              THEN /\ log' = log \cup
                         { Msg("Failed in shell command"),
                           Msg("Not connected to kubernetes cluster") }
                   /\ SysExit
              ELSE /\ pc' = "run"
                   /\ UNCHANGED << exitStatus, exc, log >>
    /\ UNCHANGED << calls, OPT, dirs, files, faults, failed, locals, archive, env >>

\* ---------------------------------------------------------------- run()
run ==
    /\ pc = "run"
    /\ LET output_dir ==
               IF OPT.output_dir # << >>
               THEN join(OPT.output_dir, OPT.dir_name)
               ELSE join(ScriptPath, OPT.dir_name)
       IN  /\ OPT' = [OPT EXCEPT !.output_dir = output_dir]
           /\ IF CanMakedirs(output_dir)
              THEN dirs' = dirs \cup Prefixes(output_dir)
              ELSE dirs' = dirs          \* except OSError: print(error)
    /\ log' = log \cup { Msg("Saving support dump files in") }
    /\ pc' = "collect_kube_version"
    /\ UNCHANGED << calls, exitStatus, exc, files, faults, failed, locals, archive,
                    env >>

\* ------------------------------------------------ single-file collectors
Item(call, path) == [call |-> call, path |-> path]

\* collect_helper without the early return after a non-zero exit
collect_helper_without_return(file_name, resource_name, next) ==
    /\ \E child \in Children(Data, faults) :
          LET r == run_shell_command(child)
              path == join(OPT.output_dir, file_name)
          IN  /\ faults' = faults + Cost(child)
              /\ calls' = calls + 1
              /\ failed' = IF r.rc # 0
                           THEN failed \cup { Item("helper", path) }
                           ELSE failed
              /\ IF CanOpen(path)
                 THEN /\ files' = files \cup { path }
                      /\ log' = log \cup { Msg("Collected") }
                      /\ pc' = next
                      /\ UNCHANGED << exc, exitStatus >>
                 ELSE /\ Raise("FileNotFoundError")
                      /\ UNCHANGED << files, log >>
    /\ UNCHANGED << OPT, dirs, locals, archive, env >>

\* collect_helper storing the file's path in OPT.output_dir instead of a local
collect_helper_assigns_output_dir(file_name, resource_name, next) ==
    /\ \E child \in Children(Data, faults) :
          LET r == run_shell_command(child)
              path == join(OPT.output_dir, file_name)
          IN  /\ faults' = faults + Cost(child)
              /\ calls' = calls + 1
              /\ IF r.rc # 0
                 THEN /\ log' = log \cup { Msg("Failed in shell command"),
                                           Msg("Error when running") }
                      /\ failed' = failed \cup { Item("helper", path) }
                      /\ pc' = next
                      /\ UNCHANGED << OPT, files, exc, exitStatus >>
                 ELSE /\ OPT' = [OPT EXCEPT !.output_dir = path]
                      /\ IF CanOpen(path)
                         THEN /\ files' = files \cup { path }
                              /\ log' = log \cup { Msg("Collected") }
                              /\ pc' = next
                              /\ UNCHANGED << failed, exc, exitStatus >>
                         ELSE /\ Raise("FileNotFoundError")
                              /\ UNCHANGED << files, log, failed >>
    /\ UNCHANGED << dirs, locals, archive, env >>

collect_helper(file_name, resource_name, next) ==
    /\ \E child \in Children(Data, faults) :
          LET r == run_shell_command(child)
              path == join(OPT.output_dir, file_name)
          IN  /\ faults' = faults + Cost(child)
              /\ calls' = calls + 1
              /\ IF r.rc # 0
                 THEN /\ log' = log \cup { Msg("Failed in shell command"),
                                           Msg("Error when running") }
                      /\ failed' = failed \cup { Item("helper", path) }
                      /\ pc' = next
                      /\ UNCHANGED << files, exc, exitStatus >>
                 ELSE IF CanOpen(path)
                 THEN /\ files' = files \cup { path }
                      /\ log' = log \cup { Msg("Collected") }
                      /\ pc' = next
                      /\ UNCHANGED << failed, exc, exitStatus >>
                 ELSE /\ Raise("FileNotFoundError")
                      /\ UNCHANGED << files, log, failed >>
    /\ UNCHANGED << OPT, dirs, locals, archive, env >>

collect_kube_version ==
    /\ pc = "collect_kube_version"
    /\ collect_helper(<<"version.info">>, "version-info", "collect_node_info")

collect_node_info ==
    /\ pc = "collect_node_info"
    /\ collect_helper(<<"nodes.info">>, "node-info", "collect_namespace_info")

collect_namespace_info ==
    /\ pc = "collect_namespace_info"
    /\ collect_helper(<<"namespace.info">>, "namespace-info", "collect_events")

collect_events ==
    /\ pc = "collect_events"
    /\ collect_helper(<<"events">>, "k8s events", "collect_pvc_list")

collect_pvc_list ==
    /\ pc = "collect_pvc_list"
    /\ collect_helper(<<"pvc.list">>, "pvc-list", "collect_configmap_list")

collect_configmap_list ==
    /\ pc = "collect_configmap_list"
    /\ collect_helper(<<"configmap.list">>, "configmap-list",
                      "collect_api_resources")

\* ------------------------------------------------- collect_api_resources
\* one iteration of the first loop (lines 193-199)
collect_api_resources_get ==
    /\ pc = "collect_api_resources"
    /\ ri <= Len(API_RESOURCES)
    /\ LET resource == API_RESOURCES[ri]
           path == join(OPT.output_dir, << resource >>)
       IN  IF OPT.kube_cli = "kubectl" /\ resource = "Routes"
           THEN UNCHANGED << resources_out, faults, calls, failed, log >>
           ELSE \E c1 \in GetChildren(faults) :
                   LET output == run_kube_get(c1)
                   IN  IF Truthy(output)
                       THEN \E c2 \in GetChildren(faults + Cost(c1)) :
                               LET again == run_kube_get(c2)
                               IN  /\ resources_out' = Append(resources_out,
                                         [entry |-> resource, out |-> again])
                                   /\ faults' = faults + Cost(c1) + Cost(c2)
                                   /\ calls' = calls + 2
                                   /\ failed' = IF again.isNone
                                         THEN failed \cup
                                              { Item("get_again", path) }
                                         ELSE failed
                                   /\ log' = IF again.isNone
                                         THEN log \cup
                                              { Msg("Failed in shell command"),
                                                Msg("Failed to get resource") }
                                         ELSE log
                       ELSE /\ resources_out' = resources_out
                            /\ faults' = faults + Cost(c1)
                            /\ calls' = calls + 1
                            /\ failed' = IF output.isNone
                                  THEN failed \cup { Item("get", path) }
                                  ELSE failed
                            /\ log' = IF output.isNone
                                  THEN log \cup
                                       { Msg("Failed in shell command"),
                                         Msg("Failed to get resource") }
                                  ELSE log
    /\ ri' = ri + 1
    /\ UNCHANGED << pc, OPT, exitStatus, exc, dirs, files, pods, podIdx,
                    containers, contIdx, execLog, archive, env >>

\* index of the first entry of the dict whose value is None, or 0
FirstNone(entries) ==
    IF \E k \in 1..Len(entries) : entries[k].out.isNone
    THEN CHOOSE k \in 1..Len(entries) :
            /\ entries[k].out.isNone
            /\ \A j \in 1..(k - 1) : ~entries[j].out.isNone
    ELSE 0

\* the second loop (lines 201-203): open(..., "wb") then write(out)
collect_api_resources_write ==
    /\ pc = "collect_api_resources"
    /\ ri > Len(API_RESOURCES)
    /\ LET bad == FirstNone(resources_out)
           last == IF bad = 0 THEN Len(resources_out) ELSE bad
           path(k) == join(OPT.output_dir, << resources_out[k].entry >>)
       IN  IF resources_out = << >>
           THEN /\ pc' = "collect_pg_logs"
                /\ UNCHANGED << files, exc, exitStatus >>
           ELSE IF ~CanOpen(path(1))
           THEN /\ Raise("FileNotFoundError")
                /\ UNCHANGED files
           ELSE /\ files' = files \cup { path(k) : k \in 1..last }
                /\ IF bad = 0
                   THEN /\ pc' = "collect_pg_logs"
                        /\ UNCHANGED << exc, exitStatus >>
                   ELSE Raise("TypeError")   \* file_pointer.write(None)
    /\ resources_out' = << >>
    /\ ri' = 1
    /\ UNCHANGED << calls, OPT, dirs, log, faults, failed, pods, podIdx, containers,
                    contIdx, execLog, archive, env >>

\* ------------------------------------------------------- pod discovery
\* the child of get_containers(pod_name): a pod the cluster does not have
\* makes the CLI exit non-zero
ContainersChildren(pod_name) ==
    IF KnownPod(pod_name)
    THEN Children(ContainersOutput(ShapeOf(pod_name)), faults)
    ELSE { [status |-> 1, output |-> ErrText] }

DiscoveryCost(child) == IF child.status # 0 THEN 1 ELSE 0

\* leave a per-pod collector
Return(next) ==
    /\ pc' = next
    /\ podIdx' = 1
    /\ containers' = None
    /\ contIdx' = 1

\* advance the loops "for pod in pods: for cont in containers"
NextContainer(loop_pod, next) ==
    IF contIdx < Len(containers.v)
    THEN /\ contIdx' = contIdx + 1
         /\ UNCHANGED << pc, podIdx, containers >>
    ELSE IF podIdx < Len(pods.v)
    THEN /\ pc' = loop_pod
         /\ podIdx' = podIdx + 1
         /\ containers' = None
         /\ contIdx' = 1
    ELSE Return(next)

\* --------------------------------------------------------- collect_pg_logs
\* lines 273-279
collect_pg_logs ==
    /\ pc = "collect_pg_logs"
    /\ LET logs_dir == join(OPT.output_dir, <<"pg_logs">>)
       IN  IF ~CanMakedirs(logs_dir)
           THEN /\ Raise("OSError")
                /\ UNCHANGED << dirs, log, faults, calls, pods, podIdx,
                                containers, contIdx >>
           ELSE /\ dirs' = dirs \cup Prefixes(logs_dir)
                /\ \E child \in Children(PodsOutput(cluster.pg), faults) :
                      /\ pods' = get_pg_pods(child)
                      /\ faults' = faults + DiscoveryCost(child)
                      /\ calls' = calls + 1
                      /\ IF ~Truthy(pods')
                         THEN /\ log' = log \cup
                                    (IF pods'.isNone
                                     THEN { Msg("Failed in shell command"),
                                            Msg("Failed to get pods") }
                                     ELSE { })
                                    \cup { Msg("Could not get pods list") }
                              /\ Return("collect_pods_logs")
                         ELSE /\ log' = log
                              /\ pc' = "collect_pg_logs_pod"
                              /\ UNCHANGED << podIdx, containers, contIdx >>
                /\ UNCHANGED << exc, exitStatus >>
    /\ UNCHANGED << OPT, files, failed, resources_out, ri, execLog, archive,
                    env >>

\* one iteration of the loop of lines 281-299
collect_pg_logs_pod ==
    /\ pc = "collect_pg_logs_pod"
    /\ LET logs_dir == join(OPT.output_dir, <<"pg_logs">>)
           pod == pods.v[podIdx]
           tgt_file == join(logs_dir, pod)
       IN  IF ~CanMakedirs(tgt_file)
           THEN /\ Raise("OSError")
                /\ UNCHANGED << dirs, files, faults, calls, podIdx,
                                containers, contIdx >>
           ELSE /\ dirs' = dirs \cup Prefixes(tgt_file)
                /\ \E ls \in Children(LsOutput, faults) :
                      \* every line read is handed to "<cli> cp"; the line of
                      \* a failed listing names nothing that can be copied
                      LET lines == DropLast(Split(ls.output, "\n"))
                          copied == IF ls.status = 0
                                    THEN { join(tgt_file, lines[k]) :
                                             k \in 1..Len(lines) }
                                    ELSE { }
                      IN  /\ files' = files \cup copied
                          /\ faults' = faults + Cost(ls)
                          /\ calls' = calls + 1 + Len(lines)
                /\ IF podIdx < Len(pods.v)
                   THEN /\ podIdx' = podIdx + 1
                        /\ UNCHANGED << pc, containers, contIdx >>
                   ELSE Return("collect_pods_logs")
                /\ UNCHANGED << exc, exitStatus >>
    /\ UNCHANGED << OPT, log, failed, resources_out, ri, pods, execLog,
                    archive, env >>

\* ------------------------------------------------------- collect_pods_logs
\* lines 210-217
collect_pods_logs ==
    /\ pc = "collect_pods_logs"
    /\ LET logs_dir == join(OPT.output_dir, <<"pod_logs">>)
       IN  IF ~CanMakedirs(logs_dir)
           THEN /\ Raise("OSError")
                /\ UNCHANGED << dirs, log, faults, calls, pods, podIdx,
                                containers, contIdx >>
           ELSE /\ dirs' = dirs \cup Prefixes(logs_dir)
                /\ \E child \in
                        Children(PodsOutput(Len(cluster.pods)), faults) :
                      /\ pods' = get_pods(child)
                      /\ faults' = faults + DiscoveryCost(child)
                      /\ calls' = calls + 1
                      /\ IF ~Truthy(pods')
                         THEN /\ log' = log \cup
                                    (IF pods'.isNone
                                     THEN { Msg("Failed in shell command"),
                                            Msg("Failed to get pods") }
                                     ELSE { })
                                    \cup { Msg("Could not get pods list") }
                              /\ Return("collect_pg_pod_details")
                         ELSE /\ log' = log
                              /\ pc' = "collect_pods_logs_pod"
                              /\ UNCHANGED << podIdx, containers, contIdx >>
                /\ UNCHANGED << exc, exitStatus >>
    /\ UNCHANGED << OPT, files, failed, resources_out, ri, execLog, archive,
                    env >>

\* containers = get_containers(pod); for cont in containers: (lines 220-221)
collect_pods_logs_pod ==
    /\ pc = "collect_pods_logs_pod"
    /\ \E child \in ContainersChildren(pods.v[podIdx]) :
          /\ containers' = get_containers(child)
          /\ faults' = faults + DiscoveryCost(child)
          /\ calls' = calls + 1
          /\ IF containers'.isNone
             THEN /\ log' = log \cup { Msg("Failed in shell command"),
                                       Msg("Failed to get pods") }
                  /\ Raise("TypeError")      \* for cont in None
             ELSE /\ log' = log
                  /\ pc' = "collect_pods_logs_container"
                  /\ UNCHANGED << exc, exitStatus >>
    /\ contIdx' = 1
    /\ UNCHANGED << OPT, dirs, files, failed, resources_out, ri, pods, podIdx,
                    execLog, archive, env >>

\* the body of the inner loop (lines 222-234)
collect_pods_logs_container ==
    /\ pc = "collect_pods_logs_container"
    /\ LET logs_dir == join(OPT.output_dir, <<"pod_logs">>)
           pod == pods.v[podIdx]
           container == rstrip(containers.v[contIdx])
           path == join(logs_dir, pod \o <<"_">> \o container \o <<".log">>)
       IN  IF ~CanOpen(path)
           THEN /\ Raise("FileNotFoundError")
                /\ UNCHANGED << files, log, faults, calls, failed, podIdx,
                                containers, contIdx >>
           ELSE \* the file is open before the child starts; its exit status
                \* is never read
                /\ \E child \in Children(Data, faults) :
                      /\ faults' = faults + Cost(child)
                      /\ calls' = calls + 1
                      /\ failed' = IF child.status # 0
                                   THEN failed \cup { Item("logs", path) }
                                   ELSE failed
                /\ files' = files \cup { path }
                /\ log' = log \cup { Msg("+ pod, container") }
                /\ NextContainer("collect_pods_logs_pod",
                                 "collect_pg_pod_details")
                /\ UNCHANGED << exc, exitStatus >>
    /\ UNCHANGED << OPT, dirs, resources_out, ri, pods, execLog, archive, env >>

\* -------------------------------------------------- collect_pg_pod_details
\* lines 241-248
collect_pg_pod_details ==
    /\ pc = "collect_pg_pod_details"
    /\ LET logs_dir == join(OPT.output_dir, <<"pg_pod_details">>)
       IN  IF ~CanMakedirs(logs_dir)
           THEN /\ Raise("OSError")
                /\ UNCHANGED << dirs, log, faults, calls, pods, podIdx,
                                containers, contIdx >>
           ELSE /\ dirs' = dirs \cup Prefixes(logs_dir)
                /\ \E child \in Children(PodsOutput(cluster.pg), faults) :
                      /\ pods' = get_pg_pods(child)
                      /\ faults' = faults + DiscoveryCost(child)
                      /\ calls' = calls + 1
                      /\ IF ~Truthy(pods')
                         THEN /\ log' = log \cup
                                    (IF pods'.isNone
                                     THEN { Msg("Failed in shell command"),
                                            Msg("Failed to get pods") }
                                     ELSE { })
                                    \cup { Msg("Could not get pods list") }
                              /\ Return("archive_files")
                         ELSE /\ log' = log
                              /\ pc' = "collect_pg_pod_details_pod"
                              /\ UNCHANGED << podIdx, containers, contIdx >>
                /\ UNCHANGED << exc, exitStatus >>
    /\ UNCHANGED << OPT, files, failed, resources_out, ri, execLog, archive,
                    env >>

\* containers = get_containers(pod); for cont in containers: (lines 251-252)
collect_pg_pod_details_pod ==
    /\ pc = "collect_pg_pod_details_pod"
    /\ \E child \in ContainersChildren(pods.v[podIdx]) :
          /\ containers' = get_containers(child)
          /\ faults' = faults + DiscoveryCost(child)
          /\ calls' = calls + 1
          /\ IF containers'.isNone
             THEN /\ log' = log \cup { Msg("Failed in shell command"),
                                       Msg("Failed to get pods") }
                  /\ Raise("TypeError")      \* for cont in None
             ELSE /\ log' = log
                  /\ pc' = "collect_pg_pod_details_container"
                  /\ UNCHANGED << exc, exitStatus >>
    /\ contIdx' = 1
    /\ UNCHANGED << OPT, dirs, files, failed, resources_out, ri, pods, podIdx,
                    execLog, archive, env >>

\* the body of the inner loop (lines 253-266): every command of the list is
\* run once, in order, its output appended to the file
collect_pg_pod_details_container ==
    /\ pc = "collect_pg_pod_details_container"
    /\ LET logs_dir == join(OPT.output_dir, <<"pg_pod_details">>)
           pod == pods.v[podIdx]
           container == rstrip(containers.v[contIdx])
           path == join(logs_dir, pod \o <<"_">> \o container \o <<".log">>)
       IN  IF ~CanOpen(path)
           THEN /\ Raise("FileNotFoundError")
                /\ UNCHANGED << files, log, faults, calls, failed, podIdx,
                                containers, contIdx, execLog >>
           ELSE /\ files' = files \cup { path }       \* open(..., "ab+")
                /\ IF container \notin DOMAIN CONTAINER_COMMANDS
                   THEN /\ Raise("KeyError")
                        /\ execLog' = [ran |-> FALSE, container |-> container,
                                       cmds |-> << >>]
                        /\ UNCHANGED << log, faults, calls, failed, podIdx,
                                        containers, contIdx >>
                   ELSE /\ execLog' = [ran |-> TRUE, container |-> container,
                                       cmds |-> CommandsFor(container)]
                        /\ \E child \in Children(Data, faults) :
                              /\ faults' = faults + Cost(child)
                              /\ calls' = calls + Len(CommandsFor(container))
                              /\ failed' = IF child.status # 0
                                    THEN failed \cup { Item("exec", path) }
                                    ELSE failed
                        /\ log' = log \cup { Msg("+ pod, container") }
                        /\ NextContainer("collect_pg_pod_details_pod",
                                         "archive_files")
                        /\ UNCHANGED << exc, exitStatus >>
    /\ UNCHANGED << OPT, dirs, resources_out, ri, pods, archive, env >>

\* ----------------------------------------------------------- archive_files
archive_files ==
    /\ pc = "archive_files"
    /\ LET file_name == AddSuffix(OPT.output_dir, ".tar.gz")
       IN  IF ~CanOpen(file_name)
           THEN /\ Raise("FileNotFoundError")
                /\ UNCHANGED << files, log, archive >>
           ELSE IF OPT.output_dir \notin dirs
           THEN /\ files' = files \cup { file_name }
                /\ Raise("FileNotFoundError")
                /\ UNCHANGED << log, archive >>
           ELSE /\ files' = files \cup { file_name }
                /\ \E st \in StatResults :
                      /\ archive' = [written |-> TRUE, stat_ok |-> st.ok,
                                      st_size |-> st.st_size]
                      /\ log' = log \cup { Msg("Archive file") } \cup
                           (IF ~st.ok
                            THEN { Msg("Archive file size: NA") }
                            ELSE IF TooBigToEmail(st.st_size)
                            THEN { MsgN("Archive file (%d bytes) may be too big to email.",
                                        st.st_size),
                                   Msg("Please request file share link by emailing support@crunchydata.com") }
                            ELSE { MsgN("Archive file size (bytes): %s ",
                                        st.st_size),
                                   Msg("Email the support dump to support@crunchydata.com") })
                /\ pc' = "done"
                /\ exitStatus' = 0
                /\ exc' = exc
    /\ UNCHANGED << calls, OPT, dirs, faults, failed, locals, env >>

Next ==
    \/ main_set_namespace
    \/ get_kube_cli
    \/ main_set_output_dir
    \/ check_kube_access
    \/ run
    \/ collect_kube_version
    \/ collect_node_info
    \/ collect_namespace_info
    \/ collect_events
    \/ collect_pvc_list
    \/ collect_configmap_list
    \/ collect_api_resources_get
    \/ collect_api_resources_write
    \/ collect_pg_logs
    \/ collect_pg_logs_pod
    \/ collect_pods_logs
    \/ collect_pods_logs_pod
    \/ collect_pods_logs_container
    \/ collect_pg_pod_details
    \/ collect_pg_pod_details_pod
    \/ collect_pg_pod_details_container
    \/ archive_files

Spec == Init /\ [][Next]_vars

\* ======================================================== properties
Under(d, f) == Len(f) > Len(d) /\ SubSeq(f, 1, Len(d)) = d
NoFilesUnder(d) == \A f \in files : ~Under(d, f)
EmptyList(x) == ~x.isNone /\ x.v = << >>

HelperFiles ==
    [collect_kube_version   |-> <<"version.info">>,
     collect_node_info      |-> <<"nodes.info">>,
     collect_namespace_info |-> <<"namespace.info">>,
     collect_events         |-> <<"events">>,
     collect_pvc_list       |-> <<"pvc.list">>,
     collect_configmap_list |-> <<"configmap.list">>]

PodLogsPcs ==
    { "collect_pods_logs", "collect_pods_logs_pod",
      "collect_pods_logs_container" }
PodDetailsPcs ==
    { "collect_pg_pod_details", "collect_pg_pod_details_pod",
      "collect_pg_pod_details_container" }

NotConnected == Msg("Not connected to kubernetes cluster")
EmailAdvice == Msg("Email the support dump to support@crunchydata.com")
ShareAdvice ==
    Msg("Please request file share link by emailing support@crunchydata.com")
ByteCount(s) == MsgN("Archive file size (bytes): %s ", s)

\* C1: when the cluster-reachability probe exits non-zero the process has
\* terminated, no collector has started a subprocess, and neither the working
\* directory nor any artifact has been created.
C1_ProbeFailureStopsBeforeCollection ==
    NotConnected \in log =>
        /\ pc = "exited"
        /\ calls = 0
        /\ dirs = { }
        /\ files = { ScriptPath }
        /\ failed = { }

C1_Witness ==
    /\ NotConnected \in log
    /\ pc = "exited"
    /\ OPT.kube_cli = "oc"

\* C2: both fatal start-up conditions end the process with a non-zero exit
\* status; a run that completes the archive step ends with status 0.
C2_FatalExitIsNonZero ==
    /\ pc = "exited" => exitStatus \notin { -1, 0 }
    /\ pc = "done" => exitStatus = 0

\* C3: in collect_api_resources, whatever the outcomes of the get
\* invocations (a repeated get failing after a first success included), a
\* kind whose get failed has no file and the run goes on to the next
\* collectors.
C3_ApiResourcesIndependent ==
    /\ exc.at # "collect_api_resources"
    /\ \A it \in failed :
          it.call \in { "get", "get_again" } => it.path \notin files

\* C4: a failing discovery (get_pods, get_pg_pods, get_containers) makes the
\* dependent collector skip the per-pod work; it never ends the run.
C4_DiscoveryFailureNeverAborts ==
    /\ pc \in { "collect_pods_logs_pod", "collect_pg_pod_details_pod",
                "collect_pg_logs_pod" } => Truthy(pods)
    /\ ~(pc = "crashed" /\ exc.at \in { "collect_pods_logs_pod",
                                         "collect_pg_pod_details_pod" })

\* the path of the (pod, container) pair at hand in a per-pod collector
PairPath(subdir) ==
    join(join(OPT.output_dir, subdir),
         pods.v[podIdx] \o <<"_">> \o rstrip(containers.v[contIdx])
            \o <<".log">>)

\* a non-zero exit of an item's subprocess is never what ends the run
FailureNeverAborts ==
    pc = "crashed" =>
        /\ exc.at \in DOMAIN HelperFiles =>
              Item("helper", join(OPT.output_dir, HelperFiles[exc.at]))
                  \notin failed
        /\ exc.at = "collect_pods_logs_container" =>
              Item("logs", PairPath(<<"pod_logs">>)) \notin failed
        /\ exc.at = "collect_pg_pod_details_container" =>
              Item("exec", PairPath(<<"pg_pod_details">>)) \notin failed

\* C5 (as stated): for a single-file collector, a resource kind and a
\* (pod, container) pair alike, an item whose subprocess exited non-zero has
\* no file afterwards, and the pipeline proceeds.  (A repeated get of a kind
\* is the subject of C3 and is left out here.)
C5_FailedItemHasNoFile ==
    /\ \A it \in failed :
          it.call \in { "helper", "get", "logs", "exec" } =>
              it.path \notin files
    /\ FailureNeverAborts

\* C5 (amended): a single-file collector whose subprocess exits non-zero, and
\* a resource kind whose first get exits non-zero, leave no file; a
\* (pod, container) pair of pod-log or pod-detail collection has its file
\* whatever the exit status of its subprocess; in each case the pipeline
\* proceeds to the next item.
C5_FailedItemFiles ==
    /\ \A it \in failed :
          it.call \in { "helper", "get" } => it.path \notin files
    /\ \A it \in failed :
          it.call \in { "logs", "exec" } => it.path \in files
    /\ FailureNeverAborts

C5_Witness ==
    /\ pc = "done"
    /\ \E it \in failed : it.call = "logs" /\ it.path \in files

\* C6 (as stated): a size of at most 25 MiB - 1 is reported as a byte count
\* with the email instruction, a size of 25 MiB or more with the file-share
\* guidance instead.
C6_SizeReportAsStated ==
    (pc = "done" /\ archive.stat_ok) =>
        LET s == archive.st_size
        IN  /\ s <= MAX_ARCHIVE_EMAIL_SIZE - 1 =>
                  ByteCount(s) \in log /\ EmailAdvice \in log
            /\ s >= MAX_ARCHIVE_EMAIL_SIZE =>
                  /\ ShareAdvice \in log
                  /\ EmailAdvice \notin log
                  /\ ByteCount(s) \notin log

\* C6 (amended): a size of at most 25 MiB (25 MiB itself included) is
\* reported as a byte count with the email instruction; only a size above
\* 25 MiB gets the file-share guidance instead.
C6_SizeReport ==
    (pc = "done" /\ archive.stat_ok) =>
        LET s == archive.st_size
        IN  /\ s <= MAX_ARCHIVE_EMAIL_SIZE =>
                  /\ ByteCount(s) \in log
                  /\ EmailAdvice \in log
                  /\ ShareAdvice \notin log
            /\ s > MAX_ARCHIVE_EMAIL_SIZE =>
                  /\ ShareAdvice \in log
                  /\ EmailAdvice \notin log
                  /\ ByteCount(s) \notin log

C6_Witness ==
    /\ pc = "done"
    /\ archive.stat_ok
    /\ archive.st_size = MAX_ARCHIVE_EMAIL_SIZE
    /\ EmailAdvice \in log

\* C7: when pod discovery succeeds with zero pods, collect_pods_logs and
\* collect_pg_pod_details each create their subdirectory and write no file
\* into it, neither ends the run, and the run produces the archive.
C7_ZeroPods ==
    /\ (pc = "collect_pg_pod_details" /\ EmptyList(pods)) =>
          /\ join(OPT.output_dir, <<"pod_logs">>) \in dirs
          /\ NoFilesUnder(join(OPT.output_dir, <<"pod_logs">>))
    /\ (pc \in { "archive_files", "done" } /\ EmptyList(pods)) =>
          /\ join(OPT.output_dir, <<"pg_pod_details">>) \in dirs
          /\ NoFilesUnder(join(OPT.output_dir, <<"pg_pod_details">>))
    /\ (pc = "crashed" /\ Len(cluster.pods) = 0) =>
          exc.at \notin PodLogsPcs \cup PodDetailsPcs \cup { "archive_files" }
    /\ pc = "done" =>
          /\ archive.written
          /\ AddSuffix(OPT.output_dir, ".tar.gz") \in files

C7_Witness ==
    /\ pc = "done"
    /\ EmptyList(pods)
    /\ Len(cluster.pods) = 0
    /\ faults = 0
    /\ archive.written
    /\ join(OPT.output_dir, <<"pod_logs">>) \in dirs
    /\ NoFilesUnder(join(OPT.output_dir, <<"pod_logs">>))
    /\ NoFilesUnder(join(OPT.output_dir, <<"pg_pod_details">>))

\* C8: when the working directory could not be created, no later step ends
\* the run: writes fail one by one and control reaches archive_files.
C8_MissingWorkDirNeverAborts ==
    pc = "crashed" => OPT.output_dir \in dirs

\* C9: in collect_pg_pod_details a "database" container gets ps, df, env and
\* the two patronictl commands, once each and in that order; a container of
\* any other name gets exactly ps, df, env once each, and the collection
\* goes on.
C9_CommandsPerContainer ==
    /\ exc.type # "KeyError"
    /\ execLog.ran =>
          execLog.cmds =
              IF execLog.container = <<"database">>
              THEN << "ps aux --width 500", "df -h", "env",
                      "patronictl list", "patronictl history" >>
              ELSE << "ps aux --width 500", "df -h", "env" >>

\* C10 (as stated): no step taken after get_kube_cli has completed changes
\* any field of OPT.
C10_OptFrozenAfterCli ==
    [][pc \notin { "main", "get_kube_cli" } => OPT' = OPT]_vars

\* C10 (amended): after get_kube_cli has completed, namespace, kube_cli and
\* dir_name never change; output_dir is assigned from the command line and
\* then rewritten by run(), and no collector and not archive_files changes
\* any field of OPT.
C10_OptFrame ==
    [][/\ pc \notin { "main", "get_kube_cli" } =>
             /\ OPT'.namespace = OPT.namespace
             /\ OPT'.kube_cli = OPT.kube_cli
             /\ OPT'.dir_name = OPT.dir_name
       /\ pc \notin { "main", "get_kube_cli", "main_set_output_dir", "run" } =>
             OPT' = OPT]_vars

C10_Witness ==
    /\ pc = "done"
    /\ OPT.output_dir = join(results.output_dir, DirName)
    /\ OPT.output_dir # results.output_dir
    /\ OPT.namespace = results.namespace

====
